---- MODULE Spec2Model ----
(***************************************************************************)
(* The singly linked list of src/src/singly_linked_list.c as a state       *)
(* machine.  The heap is a finite set of node cells; a cell is live        *)
(* between the malloc that returns it and the free that discards it, and   *)
(* malloc may hand out any cell that is not live, a freed one included.    *)
(* A value handed to the list is a caller-owned box: boxes are numbered in *)
(* the order of their insertion, box_val[b] is the integer box b holds and *)
(* released[b] counts the calls of free_data_function on it.               *)
(* The list of src/src/linked_list.c, the revision without                 *)
(* delete_node_by_data, is the record linked_list: a second run, on a heap *)
(* of its own, that PairSpec drives with the calls made on the first.      *)
(***************************************************************************)
EXTENDS Integers, Sequences, FiniteSets, TLC

\* Bounds of the model.
MaxAddr == 3
MaxBoxes == 3

NULL == 0
LIST == 1

Addr == 1..MaxAddr
Values == {0, 1, 2}

VARIABLES
  singly_linked_list,  \* the caller's list handle: NULL or LIST
  head_node,           \* singly_linked_list->head_node
  tail_node,           \* singly_linked_list->tail_node
  node_data,           \* node_data[a]: the box cell a points to (NULL: none)
  next_node,           \* next_node[a]: the cell after a (NULL: none)
  live,                \* the cells that are malloc'ed and not freed
  box_val,             \* box_val[b]: the integer in box b
  released,            \* released[b]: calls of free_data_function on box b
  crashed,             \* the process died on a write through a dangling pointer
  last,                \* the last call: [op, arg, ok, ret]
  phase,               \* which calls were made since construct
  scen,                \* progress in the scenario of the spec's section 8
  rev_hist,            \* the head-walks before the reversals that end the calls
                       \* made so far (the last two of them)
  linked_list          \* the run of linked_list.c: its list, its heap and the
                       \* reply of its last call

vars == <<singly_linked_list, head_node, tail_node, node_data, next_node, live,
          box_val, released, crashed, last, phase, scen, rev_hist, linked_list>>

heap == <<head_node, tail_node, node_data, next_node, live, released>>

----------------------------------------------------------------------------
\* Helpers on sequences.

RECURSIVE Reverse(_)
Reverse(s) == IF s = <<>> THEN <<>> ELSE Reverse(Tail(s)) \o <<Head(s)>>

RECURSIVE SelectNot(_, _)
SelectNot(s, drop) ==
  IF s = <<>> THEN <<>>
  ELSE (IF Head(s) \in drop THEN <<>> ELSE <<Head(s)>>) \o SelectNot(Tail(s), drop)

Range(s) == {s[i] : i \in 1..Len(s)}

----------------------------------------------------------------------------
\* The callbacks the caller hands to create_singly_linked_list.

\* compare_data_function(a, b) on two boxes: equality of the integers held.
compare_data_function(box, value) == box_val[box] = value

\* free_data_function(box): one more release of the box.
free_data_function(rel, box) == [rel EXCEPT ![box] = @ + 1]

----------------------------------------------------------------------------
\* is_valid_singly_linked_list taking every pointer for a list.
is_valid_always(l) == TRUE

\* is_valid_singly_linked_list
is_valid_singly_linked_list(l) == l # NULL

\* create_node: NULL for NULL data or a failed malloc, else the malloc'ed cell.
create_node(data, cell) == IF data = NULL THEN NULL ELSE cell

\* What malloc may return: NULL, or a cell that is not live.  A cell that is
\* not live holds nothing and only tail_node can still refer to one (a freed
\* one), so the free cells no pointer refers to are interchangeable and the
\* lowest stands for them all; the freed cell tail_node refers to is the
\* other choice.
Unreferenced == Addr \ (live \cup {tail_node})

MallocResults ==
  {NULL} \cup ({tail_node} \cap (Addr \ live))
         \cup {a \in Unreferenced : \A b \in Unreferenced : a <= b}

\* The walk of the loops `while (current_node != NULL)`: the cells from n on.
RECURSIVE WalkFrom(_, _, _)
WalkFrom(n, nx, fuel) ==
  IF n = NULL \/ fuel = 0 THEN <<>>
  ELSE <<n>> \o WalkFrom(nx[n], nx, fuel - 1)

Walk == WalkFrom(head_node, next_node, MaxAddr + 1)

WalkBoxes == [i \in 1..Len(Walk) |-> node_data[Walk[i]]]
WalkValues == [i \in 1..Len(Walk) |-> box_val[node_data[Walk[i]]]]

\* get_linked_list_length
RECURSIVE length_loop(_, _)
length_loop(current_node, number_of_nodes) ==
  IF current_node = NULL THEN number_of_nodes
  ELSE length_loop(next_node[current_node], number_of_nodes + 1)

get_linked_list_length ==
  IF ~is_valid_singly_linked_list(singly_linked_list) \/ head_node = NULL
  THEN 0
  ELSE length_loop(head_node, 0)

----------------------------------------------------------------------------
\* The record of a call, and what it does to the bookkeeping of the calls.

NoArg == <<>>

Call(op, arg, ok, ret) == [op |-> op, arg |-> arg, ok |-> ok, ret |-> ret]

\* The scenario: insert_at_tail(1), insert_at_tail(2), insert_at_head(0),
\* delete_by_value(1), reverse, teardown, on a freshly constructed list.
Script == << <<"insert_tail", <<1>> >>, <<"insert_tail", <<2>> >>,
             <<"insert_head", <<0>> >>, <<"delete", <<1>> >>,
             <<"reverse", NoArg>>, <<"teardown", NoArg>> >>

ScenAfter(op, arg, ok) ==
  IF op = "construct" THEN (IF ok THEN 0 ELSE -1)
  ELSE IF scen >= 0 /\ scen < Len(Script) /\ ok /\ Script[scen + 1] = <<op, arg>>
       THEN scen + 1
       ELSE -1

\* "tail": only successful insert_at_tail calls since construct (none yet,
\* when no box was inserted); "head": only successful insert_at_head calls,
\* at least one; "ins": only successful insertions, of both kinds; "mixed":
\* some other call was made.  A rejected insertion changes nothing and leaves
\* the phase as it is.
PhaseAfter(op, ok) ==
  IF op = "construct" THEN (IF ok THEN "tail" ELSE "none")
  ELSE IF op \in {"insert_head", "insert_tail"} /\ ~ok THEN phase
  ELSE IF op = "insert_tail" THEN (IF phase = "head" THEN "ins" ELSE phase)
  ELSE IF op = "insert_head"
       THEN (IF phase = "tail" THEN (IF box_val = <<>> THEN "head" ELSE "ins")
             ELSE phase)
  ELSE IF phase = "none" THEN "none" ELSE "mixed"

Record(op, arg, ok, ret) ==
  /\ last' = Call(op, arg, ok, ret)
  /\ scen' = ScenAfter(op, arg, ok)
  /\ phase' = PhaseAfter(op, ok)
  /\ rev_hist' = IF op = "reverse" /\ ok
                 THEN (IF rev_hist = <<>> THEN <<Walk>>
                       ELSE <<rev_hist[Len(rev_hist)], Walk>>)
                 ELSE <<>>

----------------------------------------------------------------------------
\* linked_list.c before create_linked_list: no list, an empty heap.
no_linked_list ==
  [list |-> NULL, head_node |-> NULL, tail_node |-> NULL,
   node_data |-> [a \in Addr |-> NULL], next_node |-> [a \in Addr |-> NULL],
   live |-> {}, released |-> <<>>, ok |-> TRUE, ret |-> 0]

Init ==
  /\ singly_linked_list = NULL
  /\ head_node = NULL
  /\ tail_node = NULL
  /\ node_data = [a \in Addr |-> NULL]
  /\ next_node = [a \in Addr |-> NULL]
  /\ live = {}
  /\ box_val = <<>>
  /\ released = <<>>
  /\ crashed = FALSE
  /\ last = Call("none", NoArg, TRUE, 0)
  /\ phase = "none"
  /\ scen = -1
  /\ rev_hist = <<>>
  /\ linked_list = no_linked_list

\* create_singly_linked_list without the check of compare_data_function.
create_without_compare_check(print, free, compare, malloc_ok) ==
  IF ~print \/ ~free THEN NULL
  ELSE IF ~malloc_ok THEN NULL
  ELSE LIST

\* create_singly_linked_list: print, free, compare say which callbacks are
\* present, malloc_ok whether the list's malloc succeeds.
create_singly_linked_list(print, free, compare, malloc_ok) ==
  IF ~print \/ ~free \/ ~compare THEN NULL
  ELSE IF ~malloc_ok THEN NULL
  ELSE LIST

Construct(print, free, compare, malloc_ok) ==
  /\ ~crashed
  /\ singly_linked_list = NULL
  /\ singly_linked_list' = create_singly_linked_list(print, free, compare, malloc_ok)
  /\ head_node' = NULL
  /\ tail_node' = NULL
  /\ UNCHANGED <<node_data, next_node, live, box_val, released, crashed>>
  /\ Record("construct", <<print, free, compare, malloc_ok>>,
            singly_linked_list' # NULL, 0)

\* A call that reports an error and returns: nothing of the list changes.
Rejected(op, arg) ==
  /\ UNCHANGED <<singly_linked_list, heap, box_val, crashed>>
  /\ Record(op, arg, FALSE, 0)

\* link_at_head with the store to head_node of a non-empty list left out.
link_at_head_keeps_head(new_node, nx) ==
  IF head_node = NULL
  THEN [head |-> new_node, tail |-> new_node, next |-> nx]
  ELSE [head |-> head_node, tail |-> tail_node,
        next |-> [nx EXCEPT ![new_node] = head_node]]

\* insert_node_at_head, lines 127-136: the links after new_node is put first.
\* nx is the memory after create_node has cleared new_node's link.
link_at_head(new_node, nx) ==
  IF head_node = NULL
  THEN [head |-> new_node, tail |-> new_node, next |-> nx]
  ELSE [head |-> new_node, tail |-> tail_node,
        next |-> [nx EXCEPT ![new_node] = head_node]]

\* insert_node_at_tail, lines 168-176: the links after new_node is appended.
link_at_tail(new_node, nx) ==
  IF head_node = NULL
  THEN [head |-> new_node, tail |-> new_node, next |-> nx]
  ELSE [head |-> head_node, tail |-> tail_node,
        next |-> [nx EXCEPT ![tail_node] = new_node]]

\* The caller's fresh box holding v, and the cell create_node fills with it.
NewBox == Len(box_val) + 1

Created(new_node, v) ==
  /\ box_val' = Append(box_val, v)
  /\ released' = Append(released, 0)
  /\ live' = live \cup {new_node}
  /\ node_data' = [node_data EXCEPT ![new_node] = NewBox]

\* insert_node_at_head(singly_linked_list, data): data is <<>> for a NULL
\* pointer and <<v>> for a fresh box holding v; cell is what malloc returns.
insert_node_at_head(data, cell) ==
  /\ ~crashed
  /\ data # NoArg => Len(box_val) < MaxBoxes
  /\ LET new_node == create_node(IF data = NoArg THEN NULL ELSE NewBox, cell) IN
     IF ~is_valid_singly_linked_list(singly_linked_list) \/ new_node = NULL
     THEN Rejected("insert_head", data)
     ELSE LET r == link_at_head(new_node, [next_node EXCEPT ![new_node] = NULL]) IN
          /\ Created(new_node, data[1])
          /\ head_node' = r.head
          /\ tail_node' = r.tail
          /\ next_node' = r.next
          /\ UNCHANGED <<singly_linked_list, crashed>>
          /\ Record("insert_head", data, TRUE, 0)

\* insert_node_at_tail(singly_linked_list, data).  When tail_node is a freed
\* cell that malloc has not handed out again, the store to its next_node is a
\* write to freed memory: it is lost in the free cell, or the process dies.
insert_node_at_tail(data, cell, dies) ==
  /\ ~crashed
  /\ data # NoArg => Len(box_val) < MaxBoxes
  /\ LET new_node == create_node(IF data = NoArg THEN NULL ELSE NewBox, cell) IN
     IF ~is_valid_singly_linked_list(singly_linked_list) \/ new_node = NULL
     THEN /\ ~dies
          /\ Rejected("insert_tail", data)
     ELSE LET r == link_at_tail(new_node, [next_node EXCEPT ![new_node] = NULL])
              dangling == head_node # NULL /\ tail_node \notin live \cup {new_node}
          IN
          IF dangling /\ dies
          THEN /\ crashed' = TRUE
               /\ UNCHANGED <<singly_linked_list, heap, box_val>>
               /\ Record("insert_tail", data, FALSE, 0)
          ELSE /\ ~dies
               /\ Created(new_node, data[1])
               /\ head_node' = r.head
               /\ tail_node' = r.tail
               /\ next_node' = IF dangling
                               THEN [next_node EXCEPT ![new_node] = NULL]
                               ELSE r.next
               /\ UNCHANGED <<singly_linked_list, crashed>>
               /\ Record("insert_tail", data, TRUE, 0)

\* reverse_loop ending one node early, as `while (current_node->next_node != NULL)`.
RECURSIVE reverse_loop_stops_early(_, _, _)
reverse_loop_stops_early(previous_node, current_node, nx) ==
  IF current_node = NULL \/ nx[current_node] = NULL
  THEN [previous_node |-> previous_node, next |-> nx]
  ELSE reverse_loop_stops_early(current_node, nx[current_node],
                                [nx EXCEPT ![current_node] = previous_node])

\* reverse_singly_linked_list, lines 304-316: the loop, and the list after it.
RECURSIVE reverse_loop(_, _, _)
reverse_loop(previous_node, current_node, nx) ==
  IF current_node = NULL
  THEN [previous_node |-> previous_node, next |-> nx]
  ELSE reverse_loop(current_node, nx[current_node],
                    [nx EXCEPT ![current_node] = previous_node])

\* reversed with the store to head_node left out.
reversed_keeps_head ==
  [head |-> head_node, tail |-> tail_node,
   next |-> reverse_loop(NULL, head_node, next_node).next]

reversed ==
  LET r == reverse_loop(NULL, head_node, next_node) IN
  [head |-> r.previous_node, tail |-> tail_node, next |-> r.next]

\* reverse_singly_linked_list without the check for an empty list.
reverse_unchecked ==
  /\ ~crashed
  /\ IF ~is_valid_singly_linked_list(singly_linked_list)
     THEN Rejected("reverse", NoArg)
     ELSE /\ head_node' = reversed.head
          /\ tail_node' = reversed.tail
          /\ next_node' = reversed.next
          /\ UNCHANGED <<singly_linked_list, node_data, live, box_val, released,
                         crashed>>
          /\ Record("reverse", NoArg, TRUE, 0)

reverse_singly_linked_list ==
  /\ ~crashed
  /\ IF ~is_valid_singly_linked_list(singly_linked_list) \/ head_node = NULL
     THEN Rejected("reverse", NoArg)
     ELSE /\ head_node' = reversed.head
          /\ tail_node' = reversed.tail
          /\ next_node' = reversed.next
          /\ UNCHANGED <<singly_linked_list, node_data, live, box_val, released,
                         crashed>>
          /\ Record("reverse", NoArg, TRUE, 0)

\* free(node): the cell is no longer live.  What a freed cell holds is
\* indeterminate and no code reads it: the model keeps it cleared.
free(st, node) ==
  [st EXCEPT !.live = @ \ {node}, !.data[node] = NULL, !.next[node] = NULL]

\* unlink without the reset of tail_node when the only node is removed.
unlink_keeps_tail(st, current_node, previous_node) ==
  LET after == st.next[current_node]
      st1 == IF previous_node = NULL
             THEN [st EXCEPT !.head = after]
             ELSE [st EXCEPT !.next[previous_node] = after,
                             !.tail = IF after = NULL THEN previous_node ELSE @]
      st2 == [st1 EXCEPT !.released = free_data_function(@, st.data[current_node]),
                         !.calls = Append(@, st.data[current_node]),
                         !.count = @ + 1]
  IN free(st2, current_node)

\* unlink without the store of previous_node to tail_node when the last node
\* is removed.
unlink_keeps_old_tail(st, current_node, previous_node) ==
  LET after == st.next[current_node]
      st1 == IF previous_node = NULL
             THEN [st EXCEPT !.head = after,
                             !.tail = IF after = NULL THEN NULL ELSE @]
             ELSE [st EXCEPT !.next[previous_node] = after]
      st2 == [st1 EXCEPT !.released = free_data_function(@, st.data[current_node]),
                         !.calls = Append(@, st.data[current_node]),
                         !.count = @ + 1]
  IN free(st2, current_node)

\* delete_node_by_data, lines 389-416: current_node matches and is unlinked,
\* its box released, the node freed.
unlink(st, current_node, previous_node) ==
  LET after == st.next[current_node]
      st1 == IF previous_node = NULL
             THEN [st EXCEPT !.head = after,
                             !.tail = IF after = NULL THEN NULL ELSE @]
             ELSE [st EXCEPT !.next[previous_node] = after,
                             !.tail = IF after = NULL THEN previous_node ELSE @]
      st2 == [st1 EXCEPT !.released = free_data_function(@, st.data[current_node]),
                         !.calls = Append(@, st.data[current_node]),
                         !.count = @ + 1]
  IN free(st2, current_node)

\* delete_loop returning after the first match.
RECURSIVE delete_first_only(_, _, _, _)
delete_first_only(st, current_node, previous_node, value) ==
  IF current_node = NULL THEN st
  ELSE IF compare_data_function(st.data[current_node], value)
       THEN unlink(st, current_node, previous_node)
       ELSE delete_first_only(st, st.next[current_node], current_node, value)

\* delete_loop counting every node it visits, not only the removed ones.
RECURSIVE delete_counts_visited(_, _, _, _)
delete_counts_visited(st, current_node, previous_node, value) ==
  IF current_node = NULL THEN st
  ELSE IF compare_data_function(st.data[current_node], value)
       THEN delete_counts_visited(unlink(st, current_node, previous_node),
                                  st.next[current_node], previous_node, value)
       ELSE delete_counts_visited([st EXCEPT !.count = @ + 1],
                                  st.next[current_node], current_node, value)

\* delete_node_by_data, lines 385-423: the loop.
RECURSIVE delete_loop(_, _, _, _)
delete_loop(st, current_node, previous_node, value) ==
  IF current_node = NULL THEN st
  ELSE IF compare_data_function(st.data[current_node], value)
       THEN delete_loop(unlink(st, current_node, previous_node),
                        st.next[current_node], previous_node, value)
       ELSE delete_loop(st, st.next[current_node], current_node, value)

\* calls: the boxes free_data_function was called on, in the order of the
\* calls; count: deleted_nodes_count.
Store == [head |-> head_node, tail |-> tail_node, data |-> node_data,
          next |-> next_node, live |-> live, released |-> released,
          calls |-> <<>>, count |-> 0]

Stored(st) ==
  /\ head_node' = st.head
  /\ tail_node' = st.tail
  /\ node_data' = st.data
  /\ next_node' = st.next
  /\ live' = st.live
  /\ released' = st.released

\* delete_node_by_data(singly_linked_list, a box holding value)
delete_node_by_data(value) ==
  /\ ~crashed
  /\ IF ~is_valid_singly_linked_list(singly_linked_list)
     THEN Rejected("delete", <<value>>)
     ELSE LET st == delete_loop(Store, head_node, NULL, value) IN
          /\ Stored(st)
          /\ UNCHANGED <<singly_linked_list, box_val, crashed>>
          /\ Record("delete", <<value>>, TRUE, st.count)

\* free_singly_linked_list, lines 228-243.  The call returns nothing: its
\* record holds the release calls it made, in their order.
RECURSIVE free_loop(_, _)
free_loop(st, current_node) ==
  IF current_node = NULL THEN st
  ELSE free_loop(free([st EXCEPT !.released =
                                   free_data_function(@, st.data[current_node]),
                                 !.calls = Append(@, st.data[current_node])],
                      current_node),
                 st.next[current_node])

\* torn_down without the reset of tail_node.
torn_down_keeps_tail == [free_loop(Store, head_node) EXCEPT !.head = NULL]

torn_down == [free_loop(Store, head_node) EXCEPT !.head = NULL, !.tail = NULL]

free_singly_linked_list ==
  /\ ~crashed
  /\ IF ~is_valid_singly_linked_list(singly_linked_list)
     THEN Rejected("teardown", NoArg)
     ELSE /\ Stored(torn_down)
          /\ UNCHANGED <<singly_linked_list, box_val, crashed>>
          /\ Record("teardown", NoArg, TRUE, torn_down.calls)

\* compare_data_function(a, b) with the searched pointer b: <<>> is NULL, which
\* equals no stored box (the callback is a total equality predicate and
\* create_node stores no NULL), <<v>> a box holding v.
compare_data(box, data) == data # NoArg /\ compare_data_function(box, data[1])

\* find_loop returning the last match: the loop runs on after a match.
RECURSIVE find_loop_last(_, _)
find_loop_last(current_node, data) ==
  IF current_node = NULL THEN NULL
  ELSE LET later == find_loop_last(next_node[current_node], data) IN
       IF later # NULL THEN later
       ELSE IF compare_data(node_data[current_node], data) THEN current_node
       ELSE NULL

\* find_loop testing the callback pointer instead of calling it.
find_loop_no_call(current_node, data) == current_node

\* find_node_by_data, lines 340-352: the loop.
RECURSIVE find_loop(_, _)
find_loop(current_node, data) ==
  IF current_node = NULL THEN NULL
  ELSE IF compare_data(node_data[current_node], data) THEN current_node
  ELSE find_loop(next_node[current_node], data)

\* found starting the loop at the node after head_node.
found_after_head(data) ==
  IF ~is_valid_singly_linked_list(singly_linked_list) \/ head_node = NULL
  THEN NULL
  ELSE find_loop(next_node[head_node], data)

\* find_node_by_data, lines 331-353: the node returned.
found(data) ==
  IF ~is_valid_singly_linked_list(singly_linked_list) THEN NULL
  ELSE find_loop(head_node, data)

\* find_node_by_data(singly_linked_list, data)
find_node_by_data(data) ==
  /\ ~crashed
  /\ IF ~is_valid_singly_linked_list(singly_linked_list)
     THEN Rejected("find", data)
     ELSE /\ UNCHANGED <<singly_linked_list, heap, box_val, crashed>>
          /\ Record("find", data, TRUE, found(data))

\* print_loop ending one node early, as `while (current_node->next_node != NULL)`.
RECURSIVE print_loop_stops_early(_)
print_loop_stops_early(current_node) ==
  IF current_node = NULL \/ next_node[current_node] = NULL THEN <<>>
  ELSE <<node_data[current_node]>> \o print_loop_stops_early(next_node[current_node])

\* print_singly_linked_list, lines 198-205: the boxes print_data_function is
\* called on, in the order of the calls.
RECURSIVE print_loop(_)
print_loop(current_node) ==
  IF current_node = NULL THEN <<>>
  ELSE <<node_data[current_node]>> \o print_loop(next_node[current_node])

\* print_singly_linked_list(singly_linked_list)
print_singly_linked_list ==
  /\ ~crashed
  /\ IF ~is_valid_singly_linked_list(singly_linked_list)
     THEN Rejected("print", NoArg)
     ELSE /\ UNCHANGED <<singly_linked_list, heap, box_val, crashed>>
          /\ Record("print", NoArg, TRUE, print_loop(head_node))

----------------------------------------------------------------------------
\* src/src/linked_list.c.  Its functions take the run L they act on and return
\* the run after the call, with the call's reply in L.ok and L.ret.  Both
\* runs are handed the same boxes: box_val numbers them for both.

is_valid_linked_list(l) == l # NULL

create_linked_list(print, free_fn, compare, malloc_ok) ==
  IF ~print \/ ~free_fn \/ ~compare THEN NULL
  ELSE IF ~malloc_ok THEN NULL
  ELSE LIST

ll_construct(L, print, free_fn, compare, malloc_ok) ==
  LET l == create_linked_list(print, free_fn, compare, malloc_ok) IN
  [L EXCEPT !.list = l, !.head_node = NULL, !.tail_node = NULL,
            !.ok = (l # NULL), !.ret = 0]

ll_create_node(data, cell) == IF data = NULL THEN NULL ELSE cell

\* What malloc may return to linked_list.c.
ll_Unreferenced(L) == Addr \ (L.live \cup {L.tail_node})

ll_MallocResults(L) ==
  {NULL} \cup ({L.tail_node} \cap (Addr \ L.live))
         \cup {a \in ll_Unreferenced(L) : \A b \in ll_Unreferenced(L) : a <= b}

\* A call that reports an error and returns.
ll_rejected(L) == [L EXCEPT !.ok = FALSE, !.ret = 0]

\* create_node has filled the malloc'ed cell with the fresh box.
ll_created(L, new_node) ==
  [L EXCEPT !.live = @ \cup {new_node},
            !.node_data[new_node] = NewBox,
            !.next_node[new_node] = NULL,
            !.released = Append(@, 0),
            !.ok = TRUE, !.ret = 0]

ll_insert_node_at_head(L, data, cell) ==
  LET new_node == ll_create_node(IF data = NoArg THEN NULL ELSE NewBox, cell) IN
  IF ~is_valid_linked_list(L.list) \/ new_node = NULL THEN ll_rejected(L)
  ELSE LET M == ll_created(L, new_node) IN
       IF M.head_node = NULL
       THEN [M EXCEPT !.head_node = new_node, !.tail_node = new_node]
       ELSE [M EXCEPT !.next_node[new_node] = M.head_node, !.head_node = new_node]

\* insert_node_at_tail storing the appended node in tail_node as well.
ll_insert_at_tail_moves_tail(L, data, cell) ==
  LET new_node == ll_create_node(IF data = NoArg THEN NULL ELSE NewBox, cell) IN
  IF ~is_valid_linked_list(L.list) \/ new_node = NULL THEN ll_rejected(L)
  ELSE LET M == ll_created(L, new_node) IN
       IF M.head_node = NULL
       THEN [M EXCEPT !.head_node = new_node, !.tail_node = new_node]
       ELSE [M EXCEPT !.next_node[M.tail_node] = new_node, !.tail_node = new_node]

\* linked_list.c has no call that frees a node and leaves tail_node on it:
\* tail_node is live whenever head_node is not NULL.
ll_insert_node_at_tail(L, data, cell) ==
  LET new_node == ll_create_node(IF data = NoArg THEN NULL ELSE NewBox, cell) IN
  IF ~is_valid_linked_list(L.list) \/ new_node = NULL THEN ll_rejected(L)
  ELSE LET M == ll_created(L, new_node) IN
       IF M.head_node = NULL
       THEN [M EXCEPT !.head_node = new_node, !.tail_node = new_node]
       ELSE [M EXCEPT !.next_node[M.tail_node] = new_node]

RECURSIVE ll_reverse_loop(_, _, _)
ll_reverse_loop(L, previous_node, current_node) ==
  IF current_node = NULL THEN [L EXCEPT !.head_node = previous_node]
  ELSE ll_reverse_loop([L EXCEPT !.next_node[current_node] = previous_node],
                       current_node, L.next_node[current_node])

reverse_linked_list(L) ==
  IF ~is_valid_linked_list(L.list) \/ L.head_node = NULL THEN ll_rejected(L)
  ELSE [ll_reverse_loop(L, NULL, L.head_node) EXCEPT !.ok = TRUE, !.ret = 0]

\* free_linked_list: L.ret collects the release calls, in their order.
RECURSIVE ll_free_loop(_, _)
ll_free_loop(L, current_node) ==
  IF current_node = NULL THEN L
  ELSE ll_free_loop([L EXCEPT !.released[L.node_data[current_node]] = @ + 1,
                              !.ret = Append(@, L.node_data[current_node]),
                              !.live = @ \ {current_node},
                              !.node_data[current_node] = NULL,
                              !.next_node[current_node] = NULL],
                    L.next_node[current_node])

free_linked_list(L) ==
  IF ~is_valid_linked_list(L.list) THEN ll_rejected(L)
  ELSE [ll_free_loop([L EXCEPT !.ok = TRUE, !.ret = <<>>], L.head_node)
          EXCEPT !.head_node = NULL, !.tail_node = NULL]

RECURSIVE ll_length_loop(_, _, _)
ll_length_loop(L, current_node, number_of_nodes) ==
  IF current_node = NULL THEN number_of_nodes
  ELSE ll_length_loop(L, L.next_node[current_node], number_of_nodes + 1)

ll_get_linked_list_length(L) ==
  IF ~is_valid_linked_list(L.list) \/ L.head_node = NULL THEN 0
  ELSE ll_length_loop(L, L.head_node, 0)

RECURSIVE ll_find_loop(_, _, _)
ll_find_loop(L, current_node, data) ==
  IF current_node = NULL THEN NULL
  ELSE IF compare_data(L.node_data[current_node], data) THEN current_node
  ELSE ll_find_loop(L, L.next_node[current_node], data)

ll_find_node_by_data(L, data) ==
  IF ~is_valid_linked_list(L.list) THEN ll_rejected(L)
  ELSE [L EXCEPT !.ok = TRUE, !.ret = ll_find_loop(L, L.head_node, data)]

\* The calls on the list of singly_linked_list.c leave the other run alone.
LinkedListIdle == UNCHANGED linked_list

Next ==
  \/ \E print, free_fn, compare, malloc_ok \in BOOLEAN :
       Construct(print, free_fn, compare, malloc_ok) /\ LinkedListIdle
  \/ \E data \in {NoArg} \cup {<<v>> : v \in Values}, cell \in MallocResults :
       insert_node_at_head(data, cell) /\ LinkedListIdle
  \/ \E data \in {NoArg} \cup {<<v>> : v \in Values}, cell \in MallocResults,
        dies \in BOOLEAN :
       insert_node_at_tail(data, cell, dies) /\ LinkedListIdle
  \/ reverse_singly_linked_list /\ LinkedListIdle
  \/ \E value \in Values : delete_node_by_data(value) /\ LinkedListIdle
  \/ free_singly_linked_list /\ LinkedListIdle
  \/ \E data \in {NoArg} \cup {<<v>> : v \in Values} :
       find_node_by_data(data) /\ LinkedListIdle
  \/ print_singly_linked_list /\ LinkedListIdle

Spec == Init /\ [][Next]_vars

----------------------------------------------------------------------------
\* The two revisions side by side: each call is made on both lists with the
\* same arguments, and malloc answers both alike (the same cell, or NULL).

BothConstruct(print, free_fn, compare, malloc_ok) ==
  /\ Construct(print, free_fn, compare, malloc_ok)
  /\ linked_list.list = NULL
  /\ linked_list' = ll_construct(linked_list, print, free_fn, compare, malloc_ok)

BothInsertAtHead(data, cell) ==
  /\ insert_node_at_head(data, cell)
  /\ linked_list' = ll_insert_node_at_head(linked_list, data, cell)

BothInsertAtTail(data, cell) ==
  /\ insert_node_at_tail(data, cell, FALSE)
  /\ linked_list' = ll_insert_node_at_tail(linked_list, data, cell)

BothReverse ==
  /\ reverse_singly_linked_list
  /\ linked_list' = reverse_linked_list(linked_list)

BothFind(data) ==
  /\ find_node_by_data(data)
  /\ linked_list' = ll_find_node_by_data(linked_list, data)

BothFree ==
  /\ free_singly_linked_list
  /\ linked_list' = free_linked_list(linked_list)

PairNext ==
  \/ \E print, free_fn, compare, malloc_ok \in BOOLEAN :
       BothConstruct(print, free_fn, compare, malloc_ok)
  \/ \E data \in {NoArg} \cup {<<v>> : v \in Values},
        cell \in MallocResults \cap ll_MallocResults(linked_list) :
       BothInsertAtHead(data, cell)
  \/ \E data \in {NoArg} \cup {<<v>> : v \in Values},
        cell \in MallocResults \cap ll_MallocResults(linked_list) :
       BothInsertAtTail(data, cell)
  \/ BothReverse
  \/ \E data \in {NoArg} \cup {<<v>> : v \in Values} : BothFind(data)
  \/ BothFree

PairSpec == Init /\ [][PairNext]_vars

----------------------------------------------------------------------------
\* Properties of the list.

Boxes == 1..Len(box_val)
Last(s) == s[Len(s)]
Did(op) == last.op = op /\ last.ok

\* C1: whenever tail_node is not NULL, the node it refers to has no next node
\* and is the last node of the walk from head_node.
C1_TailIsLast ==
  tail_node # NULL =>
    /\ next_node[tail_node] = NULL
    /\ Walk # <<>>
    /\ Last(Walk) = tail_node

\* C2: after only insert_at_tail calls on a fresh list, the walk from
\* head_node visits the inserted boxes in the order of their insertion.
C2_TailFifo ==
  phase = "tail" => WalkBoxes = [i \in Boxes |-> i]

\* C3: after N successful insertions (head or tail, in any mix) on a fresh
\* list, get_linked_list_length returns N; it returns 0 for an empty list.
C3_LengthCounts ==
  /\ phase \in {"tail", "head", "ins"} => get_linked_list_length = Len(box_val)
  /\ head_node = NULL => get_linked_list_length = 0

\* C4: delete_by_value(v) removes every node whose box holds v, keeps the
\* other nodes in their order, returns the number removed, shortens the list
\* by that number, and releases each removed box once and no other box.
C4_DeleteRemovesAll ==
  [][ (last'.op = "delete" /\ last'.ok) =>
        LET v == last'.arg[1]
            match == {a \in Range(Walk) : box_val[node_data[a]] = v}
            gone == {node_data[a] : a \in match}
        IN /\ Walk' = SelectNot(Walk, match)
           /\ \A a \in Range(Walk') : node_data'[a] = node_data[a]
           /\ last'.ret = Cardinality(match)
           /\ get_linked_list_length' = get_linked_list_length - last'.ret
           /\ \A b \in Boxes :
                released'[b] = released[b] + (IF b \in gone THEN 1 ELSE 0) ]_vars

C4_Witness == Did("delete") /\ last.ret >= 2 /\ Walk # <<>>

\* C5: once teardown has run, every box that was inserted has been released
\* exactly once.
C5_ReleasedOnce ==
  Did("teardown") => \A b \in Boxes : released[b] = 1

\* C6: the scenario holds step by step: after insert_at_tail(1),
\* insert_at_tail(2), insert_at_head(0) the walk is 0, 1, 2 and the length 3;
\* after delete_by_value(1) the walk is 0, 2, the length 2 and one box (the
\* one holding 1) was released once; after reverse the walk is 2, 0; after
\* teardown the list is empty, head and tail are NULL and each box was
\* released once.
C6_Scenario ==
  /\ scen = 3 => /\ WalkValues = <<0, 1, 2>>
                 /\ get_linked_list_length = 3
  /\ scen = 4 => /\ WalkValues = <<0, 2>>
                 /\ get_linked_list_length = 2
                 /\ last.ret = 1
                 /\ released = <<1, 0, 0>>
  /\ scen = 5 => WalkValues = <<2, 0>>
  /\ scen = 6 => /\ get_linked_list_length = 0
                 /\ head_node = NULL
                 /\ tail_node = NULL
                 /\ released = <<1, 1, 1>>

C6_Witness == scen = 6

\* C7: reverse on a non-empty list leaves the walk from head_node the reverse
\* of what it was: the same nodes, in the opposite order.
C7_ReverseReverses ==
  rev_hist # <<>> => Walk = Reverse(Last(rev_hist))

C7_Witness == rev_hist # <<>> /\ Len(Walk) = 3

\* C8: after reverse on a non-empty list, head_node is the node that was last
\* and tail_node is the node that was first.
C8_ReverseSwapsEnds ==
  rev_hist # <<>> =>
    /\ head_node = Last(Last(rev_hist))
    /\ tail_node = Head(Last(rev_hist))

\* C9: two reversals in a row leave the walk from head_node as it was before
\* the first.
C9_ReverseTwice ==
  Len(rev_hist) = 2 => Walk = rev_hist[1]

C9_Witness == Len(rev_hist) = 2 /\ Len(Walk) = 3

\* C10: head_node is NULL exactly when tail_node is NULL, and exactly when the
\* list has no node.
C10_EmptyIffNoEnds ==
  /\ head_node = NULL <=> tail_node = NULL
  /\ head_node = NULL <=> get_linked_list_length = 0
  /\ tail_node = NULL <=> Walk = <<>>

C10_Witness ==
  Did("delete") /\ last.ret >= 1 /\ head_node = NULL /\ Len(box_val) >= 2

Distinct(s) == \A i, j \in 1..Len(s) : s[i] = s[j] => i = j
First(S) == CHOOSE i \in S : \A j \in S : i <= j
Frame == UNCHANGED <<singly_linked_list, heap, box_val>>

\* C11: in a non-empty list the walk from head_node visits no node twice,
\* ends at NULL, ends on the node tail_node refers to, and visits as many
\* nodes as get_linked_list_length counts.
C11_WalkReachesTail ==
  head_node # NULL =>
    /\ Distinct(Walk)
    /\ next_node[Last(Walk)] = NULL
    /\ Last(Walk) = tail_node
    /\ Len(Walk) = get_linked_list_length

\* C12: after insert_at_head(v) the head node holds v and find_by_value(v)
\* returns the head node; after only insert_at_head calls on a fresh list the
\* walk from head_node visits the boxes in the reverse order of insertion.
C12_HeadInsertLifo ==
  /\ Did("insert_head") =>
       /\ head_node # NULL
       /\ box_val[node_data[head_node]] = last.arg[1]
       /\ found(last.arg) = head_node
  /\ phase = "head" => WalkBoxes = [i \in Boxes |-> Len(box_val) + 1 - i]

C12_Witness ==
  Did("insert_head") /\ phase = "head" /\ Len(Walk) = 3 /\ box_val[1] = box_val[3]

\* C13: find_by_value(v) returns the first node of the walk from head_node
\* whose box equals v, and NULL exactly when the list is absent or the walk
\* (empty or not) has no such node.
C13_FindFirstMatch ==
  last.op = "find" =>
    LET hits == {i \in 1..Len(Walk) :
                   /\ last.arg # NoArg
                   /\ box_val[node_data[Walk[i]]] = last.arg[1]}
    IN IF ~is_valid_singly_linked_list(singly_linked_list) \/ hits = {}
       THEN last.ret = NULL
       ELSE last.ret = Walk[First(hits)]

C13_Witness ==
  /\ Did("find")
  /\ Len(Walk) = 3
  /\ last.ret = Walk[2]
  /\ box_val[node_data[Walk[3]]] = last.arg[1]

\* C14: teardown on a valid list releases once the box of every node of the
\* walk from head_node and no other box, frees those nodes, and leaves
\* head_node and tail_node NULL and the length 0; on an absent list it changes
\* nothing.
C14_TeardownReleasesAll ==
  [][ last'.op = "teardown" =>
        IF is_valid_singly_linked_list(singly_linked_list)
        THEN /\ \A b \in Boxes :
                  released'[b] = released[b]
                                 + (IF b \in Range(WalkBoxes) THEN 1 ELSE 0)
             /\ live' = live \ Range(Walk)
             /\ head_node' = NULL
             /\ tail_node' = NULL
             /\ get_linked_list_length' = 0
        ELSE Frame ]_vars

C14_Witness ==
  Did("teardown") /\ released = <<1, 1, 1>> /\ scen # Len(Script)

\* C15: delete_by_value(v) on a list with no box equal to v returns 0,
\* releases nothing and leaves head_node, tail_node and every link as they
\* were.
C15_DeleteAbsentIsNoOp ==
  [][ ( /\ last'.op = "delete"
        /\ \A a \in Range(Walk) : box_val[node_data[a]] # last'.arg[1] ) =>
        /\ last'.ret = 0
        /\ Frame ]_vars

C15_Witness == Did("delete") /\ last.ret = 0 /\ Len(Walk) >= 2

C17_RejectedInsertIsNoOp ==
  [][ ( /\ last'.op \in {"insert_head", "insert_tail"}
        /\ \/ last'.arg = NoArg
           \/ singly_linked_list = NULL
           \/ (~last'.ok /\ ~crashed') ) =>
        /\ Frame
        /\ get_linked_list_length' = get_linked_list_length ]_vars

C17_Witness ==
  /\ last.op = "insert_tail" /\ ~last.ok /\ ~crashed
  /\ last.arg # NoArg
  /\ singly_linked_list # NULL
  /\ Len(Walk) >= 2

\* C18: reverse on an empty or absent list reports an error and changes
\* nothing: head_node and tail_node stay NULL and no link changes.
C18_ReverseEmptyIsNoOp ==
  [][ ( /\ last'.op = "reverse"
        /\ (~is_valid_singly_linked_list(singly_linked_list) \/ head_node = NULL) ) =>
        /\ ~last'.ok
        /\ Frame
        /\ head_node' = NULL
        /\ tail_node' = NULL ]_vars

C18_Witness ==
  /\ last.op = "reverse" /\ ~last.ok
  /\ is_valid_singly_linked_list(singly_linked_list)
  /\ box_val # <<>>

\* C19: construct returns a list exactly when the three callbacks are present
\* and malloc succeeds; the list it returns is empty, with head_node and
\* tail_node NULL and length 0; otherwise it returns NULL.
C19_ConstructIff ==
  last.op = "construct" =>
    /\ is_valid_singly_linked_list(singly_linked_list)
         <=> (last.arg[1] /\ last.arg[2] /\ last.arg[3] /\ last.arg[4])
    /\ last.ok <=> is_valid_singly_linked_list(singly_linked_list)
    /\ last.ok => /\ head_node = NULL
                  /\ tail_node = NULL
                  /\ Walk = <<>>
                  /\ get_linked_list_length = 0

C19_Witness == Did("construct")

\* C20: traverse_print calls print_data_function once on the box of each node
\* of the walk from head_node, in the order of the walk, and changes neither
\* head_node, tail_node, a link nor a stored value.
C20_PrintVisitsAll ==
  [][ (last'.op = "print" /\ last'.ok) =>
        /\ last'.ret = WalkBoxes
        /\ Distinct(last'.ret)
        /\ Frame ]_vars

C20_Witness == Did("print") /\ Len(last.ret) = 3

\* The list is well formed: the walk from head_node visits no node twice and
\* tail_node is its last node (NULL when the walk is empty).
WellFormed ==
  /\ Distinct(Walk)
  /\ tail_node = (IF Walk = <<>> THEN NULL ELSE Last(Walk))

\* C21: delete_by_value on a well-formed list (acyclic, tail_node the last node
\* of the walk) leaves head_node on the first surviving node and tail_node on
\* the last surviving node, whose next is NULL, and leaves both NULL when every
\* node was removed, whichever nodes were removed.
C21_DeleteKeepsWellFormed ==
  [][ (last'.op = "delete" /\ last'.ok /\ WellFormed) =>
        LET match == {a \in Range(Walk) : box_val[node_data[a]] = last'.arg[1]}
            surviving == SelectNot(Walk, match)
        IN /\ Walk' = surviving
           /\ IF surviving = <<>>
              THEN /\ head_node' = NULL
                   /\ tail_node' = NULL
              ELSE /\ head_node' = Head(surviving)
                   /\ tail_node' = Last(surviving)
                   /\ next_node'[tail_node'] = NULL ]_vars

C21_Witness ==
  /\ Did("delete") /\ last.ret = 2
  /\ Len(box_val) = 3
  /\ Len(Walk) = 1 /\ tail_node = head_node
  /\ box_val[node_data[head_node]] # last.arg[1]

\* C22: neither head_node nor tail_node refers to a node that delete_by_value
\* or teardown has freed, and no call writes a field of a freed node (the
\* process never dies on such a write): insert_at_tail never stores to the
\* next link of a node an earlier delete_by_value removed.
C22_NoFreedNodeInUse ==
  /\ head_node # NULL => head_node \in live
  /\ tail_node # NULL => tail_node \in live
  /\ ~crashed

\* The walk from the head_node of linked_list.c.
ll_Walk == WalkFrom(linked_list.head_node, linked_list.next_node, MaxAddr + 1)

\* C23: after every sequence of construct, insert_at_head, insert_at_tail,
\* reverse, find_by_value and teardown calls made with the same arguments on
\* the list of linked_list.c and on the list of singly_linked_list.c, the two
\* lists have the same walk from head_node holding the same boxes, the same
\* head_node and tail_node, the same length, the same reply to the last call
\* (its return value; for teardown the sequence of its release calls) and the
\* same releases of every box.
C23_SameObservations ==
  /\ is_valid_linked_list(linked_list.list)
       <=> is_valid_singly_linked_list(singly_linked_list)
  /\ ll_Walk = Walk
  /\ [i \in 1..Len(ll_Walk) |-> linked_list.node_data[ll_Walk[i]]] = WalkBoxes
  /\ linked_list.head_node = head_node
  /\ linked_list.tail_node = tail_node
  /\ ll_get_linked_list_length(linked_list) = get_linked_list_length
  /\ linked_list.ok = last.ok
  /\ linked_list.ret = last.ret
  /\ linked_list.released = released

C23_Witness ==
  /\ Did("teardown")
  /\ linked_list.ok
  /\ Len(linked_list.ret) = 3
  /\ linked_list.ret # <<1, 2, 3>>
  /\ linked_list.ret # <<3, 2, 1>>

====
